---- MODULE Spec2Model ----
(***************************************************************************)
(* lotus-provider "config from-miner" (cmd/lotus-provider/migrate.go).     *)
(*                                                                         *)
(* Every invocation of the command is a run of fromMiner.  The runs share  *)
(* one harmony_config table (the store); a run touches it in three round   *)
(* trips: the SELECT of the titles, the INSERT of the 'base' row and the   *)
(* INSERT of the target row.  Everything between two round trips is local  *)
(* to the run.                                                             *)
(***************************************************************************)
EXTENDS Integers, Sequences, FiniteSets, TLC

\* ---------------------------------------------------------------- bounds
NumRuns == 2          \* invocations of the command against the same store
FillRows == 10        \* rows of the largest table a run may start from

Runs == 1..NumRuns

\* ------------------------------------------------------- text and numbers
\* strconv digits used by fmt.Sprintf("%d")
Digits == <<"0", "1", "2", "3", "4", "5", "6", "7", "8", "9">>

RECURSIVE FormatInt(_)
\* fmt's %d verb for a non-negative int: repeated division by ten
FormatInt(n) ==
    IF n < 10 THEN Digits[n + 1]
    ELSE FormatInt(n \div 10) \o Digits[(n % 10) + 1]

\* Variant: the count is taken one too high.
SprintfMig_OffByOne(n) == "mig" \o FormatInt(n + 1)

\* fmt.Sprintf("mig%d", n)
SprintfMig(n) == "mig" \o FormatInt(n)

RECURSIVE JoinChars(_)
\* a Go string given as its sequence of one-character strings
JoinChars(cs) ==
    IF cs = <<>> THEN "" ELSE Head(cs) \o JoinChars(Tail(cs))

\* lo.Contains(collection, element)
Contains(collection, element) ==
    \E i \in 1..Len(collection) : collection[i] = element

\* -------------------------------------------------------------- the store
\* A row of harmony_config: (title, config).
Row(t, c) == [title |-> t, config |-> c]

\* Variant: the SELECT has no WHERE clause.
NonEmptyRow_Any(row) == TRUE

\* SELECT title FROM harmony_config WHERE LENGTH(config) > 0
NonEmptyRow(row) == Len(row.config) > 0
SelectTitles(st) ==
    LET rows == SelectSeq(st, NonEmptyRow)
    IN  [i \in 1..Len(rows) |-> rows[i].title]

\* The table's unique constraint on title.
TitleTaken(st, t) == \E i \in 1..Len(st) : st[i].title = t

\* The errors db.Exec returns: the constraint refused the row, or the
\* database could not be reached.
DuplicateKeyError == "duplicate key value violates unique constraint"
ConnectionError == "failed to connect to the database"

\* INSERT INTO harmony_config (title, config) VALUES (t, c) on a reachable
\* database: a plain insert, refused when the title is taken.
DbInsert(st, t, c) ==
    IF TitleTaken(st, t)
    THEN [err |-> DuplicateKeyError, store |-> st]
    ELSE [err |-> "", store |-> Append(st, Row(t, c))]

\* db.Exec(ctx, "INSERT ... VALUES ('base', '$1')", cfg): inside the quotes
\* $1 is text, not a placeholder, so the argument cfg is bound to nothing.
BaseInsertStmt(st, cfg) == DbInsert(st, "base", "$1")

\* Variant: INSERT ... ON CONFLICT (title) DO UPDATE SET config = $2
TargetInsertStmt_Upsert(st, layer, toml) ==
    IF TitleTaken(st, layer)
    THEN [err |-> "",
          store |-> [i \in 1..Len(st) |->
                        IF st[i].title = layer THEN Row(layer, toml) ELSE st[i]]]
    ELSE DbInsert(st, layer, toml)

\* Variant: the two arguments are passed in the wrong order.
TargetInsertStmt_Swapped(st, layer, toml) == DbInsert(st, toml, layer)

\* db.Exec(ctx, "INSERT ... VALUES ($1, $2)", name, configTOML.String())
TargetInsertStmt(st, layer, toml) == DbInsert(st, layer, toml)

\* getDefaultConfig(true): the commented default configuration, as TOML
DefaultConfigTOML == "# Default config:\n[Subsystems]\n#EnableWindowPost = false\n"

\* ------------------------------------------------------- the command line
\* Flags the command defines, with their aliases.
StringFlagNames == {"to-layer", "t"}
BoolFlagNames == {"replace", "r"}

\* The cli.Context of an invocation "--to-layer=<layer> [--replace]".
Context(layer, replace) ==
    [strings |-> [f \in StringFlagNames |-> layer],
     bools   |-> [f \in BoolFlagNames |-> replace]]

\* cctx.String(name), cctx.Bool(name): the value of a defined flag, the zero
\* value for a name the command does not define.
CtxString(c, flag) == IF flag \in DOMAIN c.strings THEN c.strings[flag] ELSE ""
CtxBool(c, flag) == IF flag \in DOMAIN c.bools THEN c.bools[flag] ELSE FALSE

\* Variant: the requested name is taken without looking at the titles.
ResolveName_NoDuplicateCheck(c, ts) ==
    LET layer == CtxString(c, "to-layer")
    IN  [err |-> "",
         name |-> IF layer = "" THEN SprintfMig(Len(ts)) ELSE layer]

\* Lines 97-104: the name of the layer to write, or the error returned.
ResolveName(c, ts) ==
    LET layer == CtxString(c, "to-layer")
    IN  IF layer = ""
        THEN [err |-> "", name |-> SprintfMig(Len(ts))]
        ELSE IF Contains(ts, layer) /\ ~CtxBool(c, "overwrite")
             THEN [err |-> "the overwrite flag is needed to replace existing layer: "
                           \o layer,
                   name |-> layer]
             ELSE [err |-> "", name |-> layer]

\* Variants: the base layer is written by every run, or by none.
NeedsBase_Always(ts) == TRUE
NeedsBase_Never(ts) == FALSE

\* Line 163: is the base layer to be written first?
NeedsBase(ts) == ~Contains(ts, "base")

\* ---------------------------------------------------------- the translator
\* The alphabet of base64.StdEncoding
EncodeStd ==
    <<
      "A", "B", "C", "D", "E", "F", "G", "H", "I", "J", "K", "L", "M", "N", "O", "P",
      "Q", "R", "S", "T", "U", "V", "W", "X", "Y", "Z", "a", "b", "c", "d", "e", "f",
      "g", "h", "i", "j", "k", "l", "m", "n", "o", "p", "q", "r", "s", "t", "u", "v",
      "w", "x", "y", "z", "0", "1", "2", "3", "4", "5", "6", "7", "8", "9", "+", "/" >>

RECURSIVE EncodeToString(_)
\* base64.RawStdEncoding.EncodeToString(src): four characters for every three
\* bytes, two or three characters for a last group of one or two bytes, and
\* no padding.
EncodeToString(src) ==
    IF Len(src) = 0 THEN ""
    ELSE IF Len(src) = 1 THEN
        EncodeStd[(src[1] \div 4) + 1] \o EncodeStd[((src[1] % 4) * 16) + 1]
    ELSE IF Len(src) = 2 THEN
        LET val == src[1] * 256 + src[2]
        IN  EncodeStd[(val \div 1024) + 1] \o EncodeStd[((val \div 16) % 64) + 1]
            \o EncodeStd[((val % 16) * 4) + 1]
    ELSE
        LET val == src[1] * 65536 + src[2] * 256 + src[3]
        IN  EncodeStd[(val \div 262144) + 1] \o EncodeStd[((val \div 4096) % 64) + 1]
            \o EncodeStd[((val \div 64) % 64) + 1] \o EncodeStd[(val % 64) + 1]
            \o EncodeToString(SubSeq(src, 4, Len(src)))

\* header.Get("Authorization")[7:] slices at 7; Go faults when the string is
\* shorter than that.
SliceFaults(header) == Len(header) < 7
SliceFrom7(header) == JoinChars(SubSeq(header, 8, Len(header)))

\* The lotus-provider config as decoded from the miner's config.toml, before
\* the command fills it in (the fields the command writes, at their zero
\* values).
DecodedConfig ==
    [MinerAddresses |-> <<>>, StorageRPCSecret |-> "", ChainApiInfo |-> <<>>,
     EnableWindowPost |-> FALSE]

\* Lines 130-151: the fields the command sets.
Populate(cfg, addr, privateKey, header) ==
    [cfg EXCEPT !.MinerAddresses = <<addr>>,
                !.StorageRPCSecret = EncodeToString(privateKey),
                !.ChainApiInfo = <<SliceFrom7(header)>>,
                !.EnableWindowPost = TRUE]

RECURSIVE TomlStrings(_)
\* a TOML array of strings, without its brackets
TomlStrings(ss) ==
    IF ss = <<>> THEN ""
    ELSE "\"" \o Head(ss) \o "\""
         \o (IF Len(ss) > 1 THEN ", " ELSE "") \o TomlStrings(Tail(ss))

\* toml.NewEncoder(configTOML).Encode(lpCfg), for the fields above
EncodeTOML(cfg) ==
    "[Subsystems]\n  EnableWindowPost = "
        \o (IF cfg.EnableWindowPost THEN "true" ELSE "false")
    \o "\n[Apis]\n  ChainApiInfo = [" \o TomlStrings(cfg.ChainApiInfo)
    \o "]\n  StorageRPCSecret = \"" \o cfg.StorageRPCSecret
    \o "\"\n[Addresses]\n  MinerAddresses = [" \o TomlStrings(cfg.MinerAddresses)
    \o "]\n"

\* ------------------------------------------------- the follow-up message
\* config.DefaultStorageMiner().HarmonyDB: the compiled-in settings
DefaultHarmonyDB ==
    [Hosts |-> <<"127.0.0.1">>, Port |-> "5433", Username |-> "yugabyte",
     Password |-> "yugabyte", Database |-> "yugabyte"]

RECURSIVE Join(_, _)
\* strings.Join(elems, sep)
Join(elems, sep) ==
    IF elems = <<>> THEN ""
    ELSE IF Len(elems) = 1 THEN elems[1]
    ELSE elems[1] \o sep \o Join(Tail(elems), sep)

\* Lines 179-195: the override fragments appended to dbSettings, in order.
DbSettings(def, cfg) ==
    (IF def.Hosts[1] # cfg.Hosts[1]
        THEN <<" --db-host=\"" \o Join(cfg.Hosts, ",") \o "\"">> ELSE <<>>)
    \o (IF def.Port # cfg.Port THEN <<" --db-port=" \o cfg.Port>> ELSE <<>>)
    \o (IF def.Username # cfg.Username
        THEN <<" --db-user=\"" \o cfg.Username \o "\"">> ELSE <<>>)
    \o (IF def.Password # cfg.Password
        THEN <<" --db-password=\"" \o cfg.Password \o "\"">> ELSE <<>>)
    \o (IF def.Database # cfg.Database
        THEN <<" --db-name=\"" \o cfg.Database \o "\"">> ELSE <<>>)

\* Lines 105, 152-155 and 197-203: the text the command prints.
Message(layer, settings) ==
    "Layer " \o layer \o " created. "
    \o "\\nBefore running lotus-provider, ensure any miner/worker answering of WindowPost is disabled by\n"
    \o "(on Miner) DisableBuiltinWindowPoSt=true and (on Workers) not enabling windowpost on CLI or via\n"
    \o "environment variable LOTUS_WORKER_WINDOWPOST.\n"
    \o "\nTo work with the config:\n./lotus-provider " \o Join(settings, "") \o " config help "
    \o "\nTo run Lotus Provider: in its own machine or cgroup without other files, use the command: \n"
    \o "./lotus-provider " \o Join(settings, "") \o " run --layers=\"" \o layer \o "\"\n\t"

\* ------------------------------------------------------------------ inputs
\* --to-layer values tried ("" is the flag left out)
ToLayerNames == {"", "base", "prod", "mig2"}

\* a layer written before the runs start
OldConfig == "[Subsystems]\n  EnableWinningPost = true\n"

\* Titles of the rows of the large starting table.
FillerTitles ==
    << "layer-a", "layer-b", "layer-c", "layer-d", "layer-e", "layer-f",
       "layer-g", "layer-h", "layer-i", "layer-j", "layer-k", "layer-l" >>

FillerStore == [i \in 1..FillRows |-> Row(FillerTitles[i], OldConfig)]

\* A title's row in a starting table: none, one blanked, one with content.
RowChoices(t) == {<<>>, <<Row(t, "")>>, <<Row(t, OldConfig)>>}

\* The tables the runs may start from; titles are unique in each.
InitStores ==
    {b \o p : b \in RowChoices("base"), p \in RowChoices("prod")}
        \cup {FillerStore}

\* sm.ActorAddress(ctx)
ActorAddress == "t01000"

\* js.PrivateKey values the keystore may hold
PrivateKeys == {<<>>, <<77, 97, 110, 33>>}

\* header.Get("Authorization") values: no header, "Bearer", "Bearer tk"
AuthHeaders ==
    { <<>>,
      <<"B", "e", "a", "r", "e", "r">>,
      <<"B", "e", "a", "r", "e", "r", " ", "t", "k">> }

\* smCfg.HarmonyDB values tried: the defaults; another port; a second host
\* after the default one; every setting changed.
HarmonyDBs ==
    { DefaultHarmonyDB,
      [DefaultHarmonyDB EXCEPT !.Port = "5432"],
      [DefaultHarmonyDB EXCEPT !.Hosts = <<"127.0.0.1", "10.0.0.2">>],
      [Hosts |-> <<"10.0.0.1", "10.0.0.2">>, Port |-> "5432", Username |-> "lotus",
       Password |-> "secret", Database |-> "harmony"] }

\* ------------------------------------------------------------------- state
VARIABLES
    store,        \* the rows of harmony_config, in insertion order
    pc,           \* where each run is in fromMiner
    cctx,         \* the flags of the run, once it has read them
    titles,       \* the titles the run's SELECT returned
    name,         \* the layer name the run settled on
    configTOML,   \* the serialized layer the run built
    err,          \* the error the run returned
    ops,          \* history: the store round trips of the run, in order
    listedAfter,  \* history: the runs that had ended when the run listed
    lpCfg,        \* the lotus-provider config the run filled in
    smCfg,        \* the HarmonyDB section of the miner's config, once compared
    dbSettings,   \* the override fragments the run collected
    msg           \* the text the run printed

vars == <<store, pc, cctx, titles, name, configTOML, err, ops, listedAfter,
          lpCfg, smCfg, dbSettings, msg>>

Ended(r) == pc[r] \in {"done", "failed", "panicked"}

NoFlags == [strings |-> <<>>, bools |-> <<>>]

Init ==
    /\ store \in InitStores
    /\ pc = [r \in Runs |-> "idle"]
    /\ cctx = [r \in Runs |-> NoFlags]
    /\ titles = [r \in Runs |-> <<>>]
    /\ name = [r \in Runs |-> ""]
    /\ configTOML = [r \in Runs |-> ""]
    /\ err = [r \in Runs |-> ""]
    /\ ops = [r \in Runs |-> <<>>]
    /\ listedAfter = [r \in Runs |-> {}]
    /\ lpCfg = [r \in Runs |-> DecodedConfig]
    /\ smCfg = [r \in Runs |-> DefaultHarmonyDB]
    /\ dbSettings = [r \in Runs |-> <<>>]
    /\ msg = [r \in Runs |-> ""]

\* return err: the run ends with the error
Fail(r, e) ==
    /\ pc' = [pc EXCEPT ![r] = "failed"]
    /\ err' = [err EXCEPT ![r] = e]

Op(kind, ok) == [op |-> kind, ok |-> ok]

\* Errors of lines 59-89: the repo, its lock, its config, the db handle.
SetupErrors ==
    { "repo not initialized", "locking repo: ", "getting node config: ",
      "could not reach the database. " }

\* Lines 56-89: the command is invoked and opens the miner repo and the db.
Start(r) ==
    /\ pc[r] = "idle"
    /\ \/ /\ pc' = [pc EXCEPT ![r] = "list"]
          /\ UNCHANGED err
       \/ \E e \in SetupErrors : Fail(r, e)
    /\ UNCHANGED <<store, cctx, titles, name, configTOML, ops, listedAfter, lpCfg, smCfg, dbSettings, msg>>

\* Variant: a run lists only while no other run is between its listing and
\* its last insert (a lock around list, decide, insert).
ListTitles_Locked(r) ==
    /\ \A q \in Runs \ {r} : pc[q] \in {"idle", "list"} \/ Ended(q)
    /\ pc[r] = "list"
    /\ listedAfter' = [listedAfter EXCEPT ![r] = {q \in Runs : Ended(q)}]
    /\ \/ /\ titles' = [titles EXCEPT ![r] = SelectTitles(store)]
          /\ ops' = [ops EXCEPT ![r] = Append(@, Op("list", TRUE))]
          /\ pc' = [pc EXCEPT ![r] = "resolve"]
          /\ UNCHANGED err
       \/ /\ ops' = [ops EXCEPT ![r] = Append(@, Op("list", FALSE))]
          /\ Fail(r, "miner cannot reach the db. ")
          /\ UNCHANGED titles
    /\ UNCHANGED <<store, cctx, name, configTOML, lpCfg, smCfg, dbSettings, msg>>

\* Lines 91-96: one SELECT of the titles with content.
ListTitles(r) ==
    /\ pc[r] = "list"
    /\ listedAfter' = [listedAfter EXCEPT ![r] = {q \in Runs : Ended(q)}]
    /\ \/ /\ titles' = [titles EXCEPT ![r] = SelectTitles(store)]
          /\ ops' = [ops EXCEPT ![r] = Append(@, Op("list", TRUE))]
          /\ pc' = [pc EXCEPT ![r] = "resolve"]
          /\ UNCHANGED err
       \/ /\ ops' = [ops EXCEPT ![r] = Append(@, Op("list", FALSE))]
          /\ Fail(r, "miner cannot reach the db. ")
          /\ UNCHANGED titles
    /\ UNCHANGED <<store, cctx, name, configTOML, lpCfg, smCfg, dbSettings, msg>>

\* Lines 97-105: the flags are read and the layer name is settled.
Resolve(r) ==
    /\ pc[r] = "resolve"
    /\ \E layer \in ToLayerNames, replace \in BOOLEAN :
         LET c == Context(layer, replace)
             res == ResolveName(c, titles[r])
         IN  /\ cctx' = [cctx EXCEPT ![r] = c]
             /\ name' = [name EXCEPT ![r] = res.name]
             /\ IF res.err # ""
                THEN Fail(r, res.err)
                ELSE /\ pc' = [pc EXCEPT ![r] = "translate"]
                     /\ UNCHANGED err
    /\ UNCHANGED <<store, titles, configTOML, ops, listedAfter, lpCfg, smCfg, dbSettings, msg>>

\* Errors of lines 109-161: the config file, the miner API, the keystore,
\* the full-node API info, the TOML encoder.
TranslateErrors ==
    { "could not read config.toml: ", "could not decode toml: ",
      "could not get storageMiner API: ", "could not read actor address: ",
      "keystore err: ", "error getting JWTSecretName: ", "cannot read API: ",
      "toml: encode" }

\* Variant: the base row is written before the layer is built, so a failed
\* translation leaves it behind.
Translate_BaseFirst(r) ==
    LET res == IF NeedsBase(titles[r])
               THEN BaseInsertStmt(store, DefaultConfigTOML)
               ELSE [err |-> "", store |-> store]
    IN  /\ pc[r] = "translate"
        /\ \/ \E e \in TranslateErrors :
                /\ Fail(r, e)
                /\ store' = res.store
                /\ UNCHANGED <<configTOML, lpCfg>>
           \/ \E key \in PrivateKeys, header \in AuthHeaders :
                IF SliceFaults(header)
                THEN /\ pc' = [pc EXCEPT ![r] = "panicked"]
                     /\ UNCHANGED <<store, err, configTOML, lpCfg>>
                ELSE LET cfg == Populate(lpCfg[r], ActorAddress, key, header)
                     IN  /\ lpCfg' = [lpCfg EXCEPT ![r] = cfg]
                         /\ configTOML' = [configTOML EXCEPT ![r] = EncodeTOML(cfg)]
                         /\ pc' = [pc EXCEPT ![r] =
                                IF NeedsBase(titles[r]) THEN "base" ELSE "target"]
                         /\ UNCHANGED <<store, err>>
        /\ UNCHANGED <<cctx, titles, name, ops, listedAfter, smCfg, dbSettings, msg>>

\* Lines 107-161: the layer is built from the miner's config and secrets.
Translate(r) ==
    /\ pc[r] = "translate"
    /\ \/ \E e \in TranslateErrors :
            /\ Fail(r, e)
            /\ UNCHANGED <<configTOML, lpCfg>>
       \/ \E key \in PrivateKeys, header \in AuthHeaders :
            IF SliceFaults(header)
            THEN /\ pc' = [pc EXCEPT ![r] = "panicked"]
                 /\ UNCHANGED <<err, configTOML, lpCfg>>
            ELSE LET cfg == Populate(lpCfg[r], ActorAddress, key, header)
                 IN  /\ lpCfg' = [lpCfg EXCEPT ![r] = cfg]
                     /\ configTOML' = [configTOML EXCEPT ![r] = EncodeTOML(cfg)]
                     /\ pc' = [pc EXCEPT ![r] =
                            IF NeedsBase(titles[r]) THEN "base" ELSE "target"]
                     /\ UNCHANGED err
    /\ UNCHANGED <<store, cctx, titles, name, ops, listedAfter, smCfg, dbSettings, msg>>

\* Variant: a base insert that could not reach the database is tried once
\* more before the run gives up.
EnsureBase_Retry(r) ==
    /\ pc[r] = "base"
    /\ \/ /\ Fail(r, "Cannot get default config: ")
          /\ UNCHANGED <<store, ops>>
       \/ /\ ops' = [ops EXCEPT ![r] = Append(@, Op("base", FALSE))]
          /\ IF Len(ops[r]) < 2
             THEN UNCHANGED <<pc, err>>
             ELSE Fail(r, ConnectionError)
          /\ UNCHANGED store
       \/ LET res == BaseInsertStmt(store, DefaultConfigTOML)
          IN  /\ store' = res.store
              /\ ops' = [ops EXCEPT ![r] = Append(@, Op("base", res.err = ""))]
              /\ IF res.err # ""
                 THEN Fail(r, res.err)
                 ELSE /\ pc' = [pc EXCEPT ![r] = "target"]
                      /\ UNCHANGED err
    /\ UNCHANGED <<cctx, titles, name, configTOML, listedAfter, lpCfg, smCfg, dbSettings, msg>>

\* Lines 163-172: the base layer is written when the titles lack it.
EnsureBase(r) ==
    /\ pc[r] = "base"
    /\ \/ /\ Fail(r, "Cannot get default config: ")
          /\ UNCHANGED <<store, ops>>
       \/ /\ ops' = [ops EXCEPT ![r] = Append(@, Op("base", FALSE))]
          /\ Fail(r, ConnectionError)
          /\ UNCHANGED store
       \/ LET res == BaseInsertStmt(store, DefaultConfigTOML)
          IN  /\ store' = res.store
              /\ ops' = [ops EXCEPT ![r] = Append(@, Op("base", res.err = ""))]
              /\ IF res.err # ""
                 THEN Fail(r, res.err)
                 ELSE /\ pc' = [pc EXCEPT ![r] = "target"]
                      /\ UNCHANGED err
    /\ UNCHANGED <<cctx, titles, name, configTOML, listedAfter, lpCfg, smCfg, dbSettings, msg>>

\* Variant: a failed target insert takes back the base row the run wrote.
InsertTarget_Rollback(r) ==
    LET undone == IF \E i \in 1..Len(ops[r]) : ops[r][i] = Op("base", TRUE)
                  THEN SelectSeq(store, LAMBDA row : row.title # "base")
                  ELSE store
    IN  /\ pc[r] = "target"
        /\ \/ /\ ops' = [ops EXCEPT ![r] = Append(@, Op("target", FALSE))]
              /\ Fail(r, ConnectionError)
              /\ store' = undone
              /\ UNCHANGED <<smCfg, dbSettings, msg>>
           \/ LET res == TargetInsertStmt(store, name[r], configTOML[r])
              IN  /\ ops' = [ops EXCEPT ![r] = Append(@, Op("target", res.err = ""))]
                  /\ IF res.err # ""
                     THEN /\ Fail(r, res.err)
                          /\ store' = undone
                          /\ UNCHANGED <<smCfg, dbSettings, msg>>
                     ELSE \E hdb \in HarmonyDBs :
                            LET settings == DbSettings(DefaultHarmonyDB, hdb)
                            IN  /\ store' = res.store
                                /\ smCfg' = [smCfg EXCEPT ![r] = hdb]
                                /\ dbSettings' = [dbSettings EXCEPT ![r] = settings]
                                /\ msg' = [msg EXCEPT ![r] = Message(name[r], settings)]
                                /\ pc' = [pc EXCEPT ![r] = "done"]
                                /\ UNCHANGED err
        /\ UNCHANGED <<cctx, titles, name, configTOML, listedAfter, lpCfg>>

\* Lines 174-205: the target layer is written, the HarmonyDB section of the
\* miner's config is compared with the defaults, and the command prints its
\* message and returns.
InsertTarget(r) ==
    /\ pc[r] = "target"
    /\ \/ /\ ops' = [ops EXCEPT ![r] = Append(@, Op("target", FALSE))]
          /\ Fail(r, ConnectionError)
          /\ UNCHANGED <<store, smCfg, dbSettings, msg>>
       \/ LET res == TargetInsertStmt(store, name[r], configTOML[r])
          IN  /\ store' = res.store
              /\ ops' = [ops EXCEPT ![r] = Append(@, Op("target", res.err = ""))]
              /\ IF res.err # ""
                 THEN /\ Fail(r, res.err)
                      /\ UNCHANGED <<smCfg, dbSettings, msg>>
                 ELSE \E hdb \in HarmonyDBs :
                        LET settings == DbSettings(DefaultHarmonyDB, hdb)
                        IN  /\ smCfg' = [smCfg EXCEPT ![r] = hdb]
                            /\ dbSettings' = [dbSettings EXCEPT ![r] = settings]
                            /\ msg' = [msg EXCEPT ![r] = Message(name[r], settings)]
                            /\ pc' = [pc EXCEPT ![r] = "done"]
                            /\ UNCHANGED err
    /\ UNCHANGED <<cctx, titles, name, configTOML, listedAfter, lpCfg>>

Next ==
    \E r \in Runs :
        \/ Start(r)
        \/ ListTitles(r)
        \/ Resolve(r)
        \/ Translate(r)
        \/ EnsureBase(r)
        \/ InsertTarget(r)

Spec == Init /\ [][Next]_vars

\* ================================================================= claims
FlagsRead(r) == cctx[r] # NoFlags
ToLayer(r) == CtxString(cctx[r], "to-layer")
ReplaceGiven(r) == CtxBool(cctx[r], "replace")
DuplicateLayerError(t) ==
    "the overwrite flag is needed to replace existing layer: " \o t
HasOp(r, kind) == \E i \in 1..Len(ops[r]) : ops[r][i].op = kind
DidOp(r, kind) ==
    \E i \in 1..Len(ops[r]) : ops[r][i].op = kind /\ ops[r][i].ok

\* C1: a run whose non-empty --to-layer is among the titles it listed, and
\* that was not given --replace, has failed with the duplicate-layer error
\* naming that title and has issued no insert (its only round trip is the
\* listing); while no other run has started, the table is one of the
\* starting tables.
C1_DuplicateRejected ==
    \A r \in Runs :
        (FlagsRead(r) /\ ToLayer(r) # "" /\ Contains(titles[r], ToLayer(r))
            /\ ~ReplaceGiven(r))
        => /\ pc[r] = "failed"
           /\ err[r] = DuplicateLayerError(ToLayer(r))
           /\ ops[r] = <<Op("list", TRUE)>>
           /\ (\A q \in Runs \ {r} : pc[q] = "idle") => store \in InitStores

C1_Witness ==
    \E r \in Runs :
        /\ FlagsRead(r) /\ ToLayer(r) = "prod" /\ ~ReplaceGiven(r)
        /\ titles[r] = <<"base", "prod">>
        /\ pc[r] = "failed"

\* C2: a run given --replace whose non-empty --to-layer is among the titles
\* it listed keeps the requested name and does not fail with the
\* duplicate-layer error.
C2_ReplaceAllowsExisting ==
    \A r \in Runs :
        (FlagsRead(r) /\ ToLayer(r) # "" /\ Contains(titles[r], ToLayer(r))
            /\ ReplaceGiven(r))
        => /\ name[r] = ToLayer(r)
           /\ err[r] # DuplicateLayerError(ToLayer(r))

\* str is "mig" followed by the decimal numeral of n, told by the value of
\* the numeral's digits (n < 100)
IsMigNumeral(str, n) ==
    LET D == <<"0", "1", "2", "3", "4", "5", "6", "7", "8", "9">>
    IN  \E tens \in 0..9, units \in 0..9 :
            /\ n = 10 * tens + units
            /\ str = "mig" \o (IF tens = 0 THEN "" ELSE D[tens + 1]) \o D[units + 1]

\* C3: a run without --to-layer names its layer "mig" followed by the
\* decimal numeral of the number of titles it listed: "mig0" for no titles,
\* "mig1" for the titles <<"base">>.
C3_MigName ==
    \A r \in Runs :
        (FlagsRead(r) /\ ToLayer(r) = "")
        => /\ IsMigNumeral(name[r], Len(titles[r]))
           /\ titles[r] = <<>> => name[r] = "mig0"
           /\ titles[r] = <<"base">> => name[r] = "mig1"

\* a run that listed ten or more titles and derived its name from the count
C3_Witness ==
    \E r \in Runs :
        /\ FlagsRead(r) /\ ToLayer(r) = "" /\ pc[r] # "failed"
        /\ Len(titles[r]) >= 10

\* C4: a run that listed "base" issues no base insert; a run that lists
\* after another run ended having inserted "base" sees "base" and issues no
\* base insert; of two completed runs in sequence, the first not having
\* listed "base", exactly one inserted "base"; and the table never holds two
\* rows titled "base".
BaseRows == {i \in 1..Len(store) : store[i].title = "base"}
BaseInserts(r) ==
    Cardinality({i \in 1..Len(ops[r]) : ops[r][i].op = "base" /\ ops[r][i].ok})

C4_BaseOnce ==
    /\ Cardinality(BaseRows) <= 1
    /\ \A r \in Runs : Contains(titles[r], "base") => ~HasOp(r, "base")
    /\ \A r \in Runs, q \in Runs :
         (q \in listedAfter[r] /\ DidOp(q, "base") /\ DidOp(r, "list"))
         => Contains(titles[r], "base") /\ ~HasOp(r, "base")
    /\ \A r \in Runs, q \in Runs :
         (q \in listedAfter[r] /\ pc[q] = "done" /\ pc[r] = "done"
             /\ ~Contains(titles[q], "base"))
         => BaseInserts(q) + BaseInserts(r) = 1

\* two completed runs in sequence, the first from a table without "base"
C4_Witness ==
    \E r \in Runs, q \in Runs :
        /\ q \in listedAfter[r] /\ pc[q] = "done" /\ pc[r] = "done"
        /\ ~Contains(titles[q], "base")
        /\ BaseInserts(q) = 1 /\ BaseInserts(r) = 0

\* C5: the "base" row a run has inserted holds the default configuration
\* returned by getDefaultConfig.
C5_BaseIsDefault ==
    \A r \in Runs :
        DidOp(r, "base")
        => \E i \in 1..Len(store) :
              store[i].title = "base" /\ store[i].config = DefaultConfigTOML

\* C6: a run whose layer is not named "base", that did not list "base" and
\* that has issued the target insert, issued it as its third round trip,
\* after the listing and after a base insert that succeeded.
C6_BaseBeforeTarget ==
    \A r \in Runs :
        (FlagsRead(r) /\ name[r] # "base" /\ ~Contains(titles[r], "base")
            /\ HasOp(r, "target"))
        => /\ Len(ops[r]) = 3
           /\ ops[r][1] = Op("list", TRUE)
           /\ ops[r][2] = Op("base", TRUE)
           /\ ops[r][3].op = "target"

\* empty table, no --to-layer: base insert, then the insert of "mig0"
C6_Witness ==
    \E r \in Runs :
        /\ FlagsRead(r) /\ ToLayer(r) = "" /\ titles[r] = <<>>
        /\ name[r] = "mig0"
        /\ ops[r] = <<Op("list", TRUE), Op("base", TRUE), Op("target", TRUE)>>
        /\ store = <<Row("base", "$1"), Row("mig0", configTOML[r])>>

\* C7: titles stay unique; no step removes a row or changes one that is in
\* the table; and an insert issued under a title that has a row leaves the
\* table as it is and ends the run failed with the store's error.
UniqueTitles ==
    \A i \in 1..Len(store), j \in 1..Len(store) :
        store[i].title = store[j].title => i = j

RowsKept ==
    /\ Len(store') >= Len(store)
    /\ \A i \in 1..Len(store) : store'[i] = store[i]

ConflictAborts ==
    \A r \in Runs :
        (pc'[r] # pc[r]
            /\ \/ pc[r] = "target" /\ TitleTaken(store, name[r])
               \/ pc[r] = "base" /\ TitleTaken(store, "base")
            /\ Len(ops'[r]) > Len(ops[r]))
        => /\ store' = store
           /\ pc'[r] = "failed"
           /\ err'[r] \in {DuplicateKeyError, ConnectionError}

C7_NotUpsert == [](UniqueTitles) /\ [][RowsKept /\ ConflictAborts]_vars

\* a target insert that the unique constraint refused
C7_Witness ==
    \E r \in Runs :
        /\ pc[r] = "failed" /\ err[r] = DuplicateKeyError
        /\ ops[r][Len(ops[r])] = Op("target", FALSE)
        /\ TitleTaken(store, name[r])

\* C8: nothing serializes the runs: a run that is to list, to write the
\* base layer or to write its layer can do so whatever the other runs are
\* doing.  The witness is the race: two runs that listed the same titles,
\* settled on the same free title and are both about to insert it.
C8_NoLock ==
    \A r \in Runs :
        /\ pc[r] = "list" => ENABLED ListTitles(r)
        /\ pc[r] = "base" => ENABLED EnsureBase(r)
        /\ pc[r] = "target" => ENABLED InsertTarget(r)

C8_Witness ==
    \E r \in Runs, q \in Runs :
        /\ r # q
        /\ pc[r] = "target" /\ pc[q] = "target"
        /\ titles[r] = titles[q]
        /\ name[r] = name[q]
        /\ ~TitleTaken(store, name[r])
        /\ ~HasOp(r, "target") /\ ~HasOp(q, "target")

\* C9: the round trips of a run are, in this order, one listing, at most
\* one base insert and at most one target insert; only the last of them can
\* have failed, and then the run has failed; a completed run ended with its
\* target insert; a run only moves forward through fromMiner; and a run
\* that has ended issues nothing more.
OpKinds(r) == [i \in 1..Len(ops[r]) |-> ops[r][i].op]

Rank(p) ==
    CASE p = "idle" -> 0
      [] p = "list" -> 1
      [] p = "resolve" -> 2
      [] p = "translate" -> 3
      [] p = "base" -> 4
      [] p = "target" -> 5
      [] OTHER -> 6

OpsInOrder(r) ==
    /\ OpKinds(r) \in { <<>>, <<"list">>, <<"list", "base">>, <<"list", "target">>,
                        <<"list", "base", "target">> }
    /\ \A i \in 1..Len(ops[r]) :
          ~ops[r][i].ok => i = Len(ops[r]) /\ pc[r] = "failed" /\ err[r] # ""
    /\ pc[r] = "done" => ops[r][Len(ops[r])] = Op("target", TRUE)
    /\ pc[r] = "failed" => err[r] # ""

StepsForward ==
    \A r \in Runs :
        /\ pc'[r] # pc[r] => Rank(pc'[r]) > Rank(pc[r])
        /\ ops'[r] # ops[r] => pc'[r] # pc[r]
        /\ Ended(r) => pc'[r] = pc[r] /\ ops'[r] = ops[r] /\ err'[r] = err[r]

C9_OneShot == [](\A r \in Runs : OpsInOrder(r)) /\ [][StepsForward]_vars

\* a run whose base insert failed and that ended there
C9_Witness ==
    \E r \in Runs :
        /\ pc[r] = "failed"
        /\ ops[r] = <<Op("list", TRUE), Op("base", FALSE)>>

\* C10: a completed run issued exactly one target insert, and the table
\* holds a row under the name it settled on whose content is the non-empty
\* layer the run serialized; a completed run that listed <<"base">> and had
\* no --to-layer made two round trips, the listing and the insert of "mig1".
TargetOps(r) == {i \in 1..Len(ops[r]) : ops[r][i].op = "target"}

C10_DoneHasLayer ==
    \A r \in Runs :
        pc[r] = "done"
        => /\ Cardinality(TargetOps(r)) = 1
           /\ DidOp(r, "target")
           /\ Len(configTOML[r]) > 0
           /\ \E i \in 1..Len(store) : store[i] = Row(name[r], configTOML[r])
           /\ (titles[r] = <<"base">> /\ ToLayer(r) = "")
              => /\ name[r] = "mig1"
                 /\ ops[r] = <<Op("list", TRUE), Op("target", TRUE)>>

C10_Witness ==
    \E r \in Runs :
        /\ pc[r] = "done" /\ titles[r] = <<"base">> /\ ToLayer(r) = ""
        /\ \E i \in 1..Len(store) : store[i] = Row("mig1", configTOML[r])

\* C11: a run that wrote the base row and then failed at its target insert
\* has ended failed, and the "base" row it wrote is in the table, in this
\* and in every later state.
C11_NoRollback ==
    \A r \in Runs :
        (DidOp(r, "base") /\ ops[r][Len(ops[r])] = Op("target", FALSE))
        => /\ pc[r] = "failed"
           /\ err[r] # ""
           /\ \E i \in 1..Len(store) : store[i] = Row("base", "$1")

C11_Witness ==
    \E r \in Runs :
        /\ pc[r] = "failed"
        /\ ops[r] = <<Op("list", TRUE), Op("base", TRUE), Op("target", FALSE)>>
        /\ TitleTaken(store, "base")

\* C12: rows with empty content take no part in naming.  A listing returns
\* the titles of exactly the rows with content.  And for a run on its own
\* that has read its flags and not yet inserted (so the table is as it
\* listed it): without --to-layer its name counts the rows with content
\* only; a --to-layer equal to the title of a blank row does not end it with
\* the duplicate-layer error; and with a blank "base" row it goes on to write
\* the base layer.
Alone(r) == \A q \in Runs \ {r} : pc[q] = "idle"
NonEmptyCount(st) == Cardinality({i \in 1..Len(st) : st[i].config # ""})
BlankRow(st, t) == \E i \in 1..Len(st) : st[i].title = t /\ st[i].config = ""

ListsRowsWithContent ==
    \A r \in Runs :
        (pc[r] = "list" /\ pc'[r] = "resolve")
        => /\ Len(titles'[r]) = NonEmptyCount(store)
           /\ \A i \in 1..Len(store) :
                 Contains(titles'[r], store[i].title) <=> store[i].config # ""

BlankRowsIgnored ==
    \A r \in Runs :
        (Alone(r) /\ FlagsRead(r) /\ ~HasOp(r, "base") /\ ~HasOp(r, "target"))
        => /\ ToLayer(r) = "" => IsMigNumeral(name[r], NonEmptyCount(store))
           /\ (ToLayer(r) # "" /\ BlankRow(store, ToLayer(r)))
              => err[r] # DuplicateLayerError(ToLayer(r))
           /\ (BlankRow(store, "base") /\ pc[r] \in {"base", "target"})
              => pc[r] = "base"

C12_BlankRowsIgnored == [](BlankRowsIgnored) /\ [][ListsRowsWithContent]_vars

\* blank rows "base" and "prod", --to-layer=prod: past the duplicate check
\* and about to write the base layer
C12_Witness ==
    \E r \in Runs :
        /\ Alone(r) /\ FlagsRead(r) /\ ToLayer(r) = "prod"
        /\ store = <<Row("base", ""), Row("prod", "")>>
        /\ titles[r] = <<>>
        /\ pc[r] = "base"

\* C13: the message of a completed run carries the override of a store
\* setting exactly when that setting of the miner's config differs from the
\* default: the host list (compared as a whole), the port, the user name,
\* the password, the database name.
HasFragment(r, f) == \E i \in 1..Len(dbSettings[r]) : dbSettings[r][i] = f

C13_OverridesIffDiffer ==
    \A r \in Runs :
        pc[r] = "done"
        => LET c == smCfg[r]
               d == DefaultHarmonyDB
           IN  /\ c.Hosts # d.Hosts
                  <=> HasFragment(r, " --db-host=\"" \o Join(c.Hosts, ",") \o "\"")
               /\ c.Port # d.Port <=> HasFragment(r, " --db-port=" \o c.Port)
               /\ c.Username # d.Username
                  <=> HasFragment(r, " --db-user=\"" \o c.Username \o "\"")
               /\ c.Password # d.Password
                  <=> HasFragment(r, " --db-password=\"" \o c.Password \o "\"")
               /\ c.Database # d.Database
                  <=> HasFragment(r, " --db-name=\"" \o c.Database \o "\"")
               /\ msg[r] = Message(name[r], dbSettings[r])

\* C14: no run faults on the Authorization header: a header shorter than
\* seven characters ends the run with a returned error.
C14_ShortHeaderIsAnError ==
    \A r \in Runs : pc[r] # "panicked"

\* C15: no run goes on to persist a layer whose StorageRPCSecret is empty: an
\* empty private key ends the translation with an error.
C15_NoEmptySecret ==
    \A r \in Runs :
        pc[r] \in {"base", "target", "done"} \/ HasOp(r, "target")
        => lpCfg[r].StorageRPCSecret # ""

\* C16: a run given --replace and a --to-layer that it listed is not turned
\* away as a duplicate, by the command or by the store, and when it has
\* completed the row under that title holds the layer it built.
C16_ReplaceReplaces ==
    \A r \in Runs :
        (FlagsRead(r) /\ ToLayer(r) # "" /\ Contains(titles[r], ToLayer(r))
            /\ ReplaceGiven(r))
        => /\ err[r] \notin {DuplicateLayerError(ToLayer(r)), DuplicateKeyError}
           /\ pc[r] = "done"
              => \E i \in 1..Len(store) :
                    store[i] = Row(ToLayer(r), configTOML[r])

\* C17: a run whose layer is named "base", on a table without a "base" row,
\* issues no base insert of the default, is not refused by the store, and
\* when it has completed the "base" row holds the layer it built.
C17_BaseAsTarget ==
    \A r \in Runs :
        (Alone(r) /\ FlagsRead(r) /\ ToLayer(r) = "base"
            /\ ~Contains(titles[r], "base") /\ ~BlankRow(store, "base"))
        => /\ pc[r] # "base"
           /\ ~HasOp(r, "base")
           /\ err[r] # DuplicateKeyError
           /\ pc[r] = "done"
              => \E i \in 1..Len(store) : store[i] = Row("base", configTOML[r])

\* C18: when the runs do not overlap (of two runs that listed, one had ended
\* before the other listed), a run without --to-layer that is about to
\* insert its layer finds the derived title free.
NonConcurrent ==
    \A r \in Runs, q \in Runs :
        (r # q /\ HasOp(r, "list") /\ HasOp(q, "list"))
        => (q \in listedAfter[r] \/ r \in listedAfter[q])

C18_DerivedNameFree ==
    \A r \in Runs :
        (NonConcurrent /\ FlagsRead(r) /\ ToLayer(r) = "" /\ pc[r] = "target")
        => ~TitleTaken(store, name[r])

\* C19: a run that fails while building the layer (config file, actor
\* address, keystore, API info, TOML encoding) ends failed with that error
\* and has written nothing: the failing step leaves the table as it was and
\* the run has issued neither the base insert nor the target insert.
AbortsBeforePersistence ==
    \A r \in Runs :
        (pc[r] = "translate" /\ pc'[r] = "failed")
        => /\ err'[r] \in TranslateErrors
           /\ store' = store
           /\ ops'[r] = ops[r]

NothingInserted ==
    \A r \in Runs :
        (pc[r] = "failed" /\ err[r] \in TranslateErrors)
        => /\ ~HasOp(r, "base")
           /\ ~HasOp(r, "target")
           /\ Alone(r) => store \in InitStores

C19_FailureWritesNothing ==
    [](NothingInserted) /\ [][AbortsBeforePersistence]_vars

C19_Witness ==
    \E r \in Runs :
        /\ pc[r] = "failed"
        /\ err[r] = "keystore err: "
        /\ Alone(r)
        /\ store = <<>>
        /\ titles[r] = <<>>

====
